---- MODULE Spec2Model ----
(***************************************************************************)
(* State-machine model of lib/SellingPartner.js: the client's session      *)
(* (tokens, role credentials, options), the constructor, the token         *)
(* manager (_validateAccessTokenAndRoleCredentials, refreshAccessToken,    *)
(* refreshRoleCredentials), callAPI with its retry paths, and the          *)
(* validation front of download/upload.                                    *)
(*                                                                         *)
(* Every `await` of the source is a suspension point: the code between     *)
(* two awaits is one action.  Upstream answers are chosen by the           *)
(* environment from small sets.  `log` is a history variable: the          *)
(* sequence of observable events, each with the session's token fields     *)
(* as they are right after the event.                                      *)
(***************************************************************************)
EXTENDS Integers, Sequences, FiniteSets, TLC

VARIABLES
  inst,              \* "none" | "ok" | "failed": outcome of new SellingPartner(config)
  ctor_error,        \* code of the CustomError the constructor threw, or Undefined
  region,            \* this._region
  refresh_token,     \* this._refresh_token
  access_token,      \* this._access_token
  role_credentials,  \* this._role_credentials: NoCreds or <<[id, secret, security_token]>>
  grantless_tokens,  \* this._grantless_tokens: scope -> token or Undefined
  options,           \* this._options
  calls,             \* per callAPI invocation: program position and locals
  xfer,              \* the download/upload invocation: program position and locals
  log                \* history of events

vars == <<inst, ctor_error, region, refresh_token, access_token, role_credentials,
          grantless_tokens, options, calls, xfer, log>>

session == <<inst, ctor_error, region, refresh_token, access_token, role_credentials,
             grantless_tokens, options>>

-----------------------------------------------------------------------------
(* JavaScript values *)

\* JS `undefined` for string-valued slots.
Undefined == "undefined"

\* JS `undefined` for the object-valued slot _role_credentials (<<c>> when set).
NoCreds == <<>>

\* !!v for the string-valued slots: undefined and the empty string are falsy.
Truthy(v) == v \notin {Undefined, ""}

-----------------------------------------------------------------------------
(* Bounds *)

\* The upstream answers at most MaxRetries retry-triggering responses per call.
MaxRetries == 2

\* A caller invokes the refresh methods itself at most MaxRefreshes times.
MaxRefreshes == 2

-----------------------------------------------------------------------------
(* constructor *)

OptionKeys == {"auto_request_tokens", "auto_request_throttled", "use_sandbox",
               "only_grantless_operations"}

\* The defaults of Object.assign({...}, config.options).
DefaultOptions ==
  [auto_request_tokens |-> TRUE, auto_request_throttled |-> TRUE,
   use_sandbox |-> FALSE, only_grantless_operations |-> FALSE]

\* Object.assign(defaults, given): a key of `given` overrides the default.
MergeOptions(given) ==
  [k \in OptionKeys |-> IF k \in DOMAIN given THEN given[k] ELSE DefaultOptions[k]]

\* /^(eu|na|fe)$/.test(r)
RegionTest(r) == r \in {"eu", "na", "fe"}

\* The region check of the constructor.
RegionInvalid(r) == ~Truthy(r) \/ ~RegionTest(r)

RefreshTokenMissing_WrongPolarity(rt, opts) ==
  ~Truthy(rt) /\ opts.only_grantless_operations

\* The refresh-token check of the constructor.
RefreshTokenMissing(rt, opts) == ~Truthy(rt) /\ ~opts.only_grantless_operations

ConstructorError_RefreshFirst(config) ==
  LET opts == MergeOptions(config.options) IN
  IF RefreshTokenMissing(config.refresh_token, opts) THEN "NO_REFRESH_TOKEN_PROVIDED"
  ELSE IF RegionInvalid(config.region) THEN "NO_VALID_REGION_PROVIDED"
  ELSE Undefined

\* The constructor's checks in the order of the code: the code of the error thrown,
\* or Undefined when construction succeeds.
ConstructorError(config) ==
  LET opts == MergeOptions(config.options) IN
  IF RegionInvalid(config.region) THEN "NO_VALID_REGION_PROVIDED"
  ELSE IF RefreshTokenMissing(config.refresh_token, opts) THEN "NO_REFRESH_TOKEN_PROVIDED"
  ELSE Undefined

\* Scopes of grantless operations (valid_scopes of _constructRefreshAccessTokenBody).
valid_scopes == {"sellingpartnerapi::notifications", "sellingpartnerapi::migration"}

\* this._grantless_tokens = {}
EmptyGrantless == [s \in valid_scopes |-> Undefined]

\* Configurations handed to the constructor.
Regions == {Undefined, "", "eu", "na", "fe", "us", "EU"}
RefreshTokens == {Undefined, "", "Atzr|refresh"}
SeedAccessTokens == {Undefined, "Atza|seed"}
SeedCreds == [id |-> "ASIASEED", secret |-> "seedsecret", security_token |-> "seedsession"]
SeedRoleCredentials == {NoCreds, <<SeedCreds>>}
GivenOptions == UNION {[K -> BOOLEAN] : K \in SUBSET OptionKeys}

Configs ==
  [region : Regions, refresh_token : RefreshTokens, access_token : SeedAccessTokens,
   role_credentials : SeedRoleCredentials, options : GivenOptions]

\* The token fields of the session, as recorded with every event.
Sess == [access_token |-> access_token, grantless_tokens |-> grantless_tokens,
         role_credentials |-> role_credentials]

SessAfter(at, gt, rc) == [access_token |-> at, grantless_tokens |-> gt, role_credentials |-> rc]

Calls == {"c1", "c2"}

\* The history holds the events of each callAPI invocation, of the constructor
\* ("new") and of download/upload ("transfer").
Actors == Calls \cup {"new", "transfer"}

\* An event of the history; `at` is its place in the order of all events.
Event(c, kind, d, s) == [c |-> c, kind |-> kind, d |-> d, sess |-> s, at |-> 0]

\* The number of events so far.
Events == Len(log["new"]) + Len(log["transfer"]) + Len(log["c1"]) + Len(log["c2"])

\* The history with `events` of actor c added.
Logged(c, events) ==
  [log EXCEPT ![c] = @ \o [n \in DOMAIN events |-> [events[n] EXCEPT !.at = Events + n]]]

\* No error raised.
NoError == [code |-> Undefined, message |-> <<>>]

\* new CustomError({code, message}) raised by the client itself (the message texts
\* of these are not modelled).
LocalError(code) == [code |-> code, message |-> <<"client">>]

IdleCall == [pc |-> "idle", operation |-> Undefined, req_params |-> <<>>,
             result |-> <<>>, error |-> NoError, retries |-> 0]

IdleXfer == [pc |-> "idle", op |-> Undefined, details |-> <<>>, options |-> <<>>,
             error |-> NoError, result |-> <<>>]

\* new SellingPartner(config)
Construct(config) ==
  /\ inst = "none"
  /\ region' = config.region
  /\ refresh_token' = config.refresh_token
  /\ access_token' = config.access_token
  /\ role_credentials' = config.role_credentials
  /\ grantless_tokens' = EmptyGrantless
  /\ options' = MergeOptions(config.options)
  /\ ctor_error' = ConstructorError(config)
  /\ inst' = IF ConstructorError(config) = Undefined THEN "ok" ELSE "failed"
  /\ log' = Logged("new", <<Event("new", "construct", [config |-> config],
                                    SessAfter(config.access_token, EmptyGrantless,
                                              config.role_credentials))>>)
  /\ UNCHANGED <<calls, xfer>>

-----------------------------------------------------------------------------
(* Operation catalog (./operations) and upstream answers *)

\* The catalog: operation identifier -> what the operation adds to req_params.
operations ==
  [getOrders |->
     [method |-> "GET", scope |-> Undefined, restore_rate |-> 60],
   deleteDestination |->
     [method |-> "DELETE", scope |-> "sellingpartnerapi::notifications", restore_rate |-> 1],
   getAuthorizationCode |->
     [method |-> "GET", scope |-> "sellingpartnerapi::migration", restore_rate |-> 2]]

\* operations[operation] is truthy.
Registered(operation) == operation \in DOMAIN operations

\* operations[req_params.operation](req_params): the request with the catalog's
\* fields assigned to it; the operation identifier stays in it.
Expand(operation) ==
  [operation |-> operation, method |-> operations[operation].method,
   scope |-> operations[operation].scope,
   restore_rate |-> operations[operation].restore_rate]

\* Operation identifiers callers pass to callAPI.
OperationIds == {Undefined, "", "getOrders", "deleteDestination", "getAuthorizationCode",
                 "getOrdersV2"}

\* Texts of upstream errors, as sequences of fragments.
TextAccessExpired == <<"The", "access token", "you provided has", "expired">>
TextSecurityExpired == <<"The", "security token", "included in the request is", "expired">>
TextDenied == <<"Access to requested resource is denied.">>
TextExpiredAccess == <<"expired", "access token">>

\* String(undefined), what RegExp.prototype.test sees for a missing field.
TextUndefined == <<"undefined">>

\* /<first>.*expired/.test(text)
RegexTest(first, text) ==
  \E i, j \in DOMAIN text : i < j /\ text[i] = first /\ text[j] = "expired"

\* error.details / error.message of a parsed error object.
Details(error) == IF "details" \in DOMAIN error THEN error.details ELSE TextUndefined
Message(error) == IF "message" \in DOMAIN error THEN error.message ELSE TextUndefined

AccessTokenExpired_OnMessage(error) == RegexTest("access token", Message(error))

\* /access token.*expired/.test(error.details)
AccessTokenExpired(error) == RegexTest("access token", Details(error))

\* /security token.*expired/.test(error.message)
SecurityTokenExpired(error) == RegexTest("security token", Message(error))

\* Tokens the token endpoint hands out.
IssuedTokens == {"Atza|new1", "Atza|new2"}

\* Answers of the token endpoint: unparsable, {access_token}, {error, error_description}, {}.
TokenResponses ==
  {[parses |-> FALSE, access_token |-> Undefined, error |-> Undefined]}
  \cup {[parses |-> TRUE, access_token |-> t, error |-> Undefined] : t \in IssuedTokens}
  \cup {[parses |-> TRUE, access_token |-> Undefined, error |-> "invalid_grant"],
        [parses |-> TRUE, access_token |-> Undefined, error |-> Undefined]}

IssuedCreds == [AccessKeyId |-> "ASIANEW", SecretAccessKey |-> "newsecret",
                SessionToken |-> "newsession"]

\* Answers of the role-assumption endpoint: unparsable, AssumeRoleResponse with
\* Credentials, ErrorResponse with Error, anything else.
RoleResponses ==
  {[parses |-> FALSE, Credentials |-> <<>>, Error |-> Undefined],
   [parses |-> TRUE, Credentials |-> <<IssuedCreds>>, Error |-> Undefined],
   [parses |-> TRUE, Credentials |-> <<>>, Error |-> "AccessDenied"],
   [parses |-> TRUE, Credentials |-> <<>>, Error |-> Undefined]}

ErrorResponse(status, error) == [statusCode |-> status, body |-> <<[errors |-> <<error>>]>>]

\* Error answers of the API: {errors:[{code, message, details}]}.
ApiErrorResponses ==
  {ErrorResponse(403, [code |-> "Unauthorized", message |-> TextDenied,
                       details |-> TextAccessExpired]),
   ErrorResponse(403, [code |-> "Unauthorized", message |-> TextSecurityExpired]),
   ErrorResponse(403, [code |-> "Unauthorized", message |-> TextSecurityExpired,
                       details |-> TextAccessExpired]),
   ErrorResponse(403, [code |-> "Unauthorized", message |-> TextAccessExpired]),
   ErrorResponse(403, [code |-> "Unauthorized", message |-> TextDenied,
                       details |-> TextExpiredAccess]),
   ErrorResponse(429, [code |-> "QuotaExceeded", message |-> <<"You exceeded your quota">>]),
   ErrorResponse(403, [code |-> "QuotaExceeded", message |-> <<"You exceeded your quota">>]),
   ErrorResponse(429, [code |-> "Unauthorized", message |-> TextDenied,
                       details |-> TextAccessExpired]),
   ErrorResponse(400, [code |-> "InvalidInput", message |-> <<"Invalid input">>]),
   ErrorResponse(500, [code |-> "InternalFailure", message |-> <<"Internal failure">>])}

\* Answers of the API without an errors list, the 204 of a DELETE, and a body
\* that is no JSON.
ApiOkResponses ==
  {[statusCode |-> 200, body |-> <<[payload |-> [ok |-> "true"]]>>],
   [statusCode |-> 200, body |-> <<[payload |-> [inventorySummaries |-> "items"],
                                    pagination |-> [nextToken |-> "next"]]>>],
   [statusCode |-> 200, body |-> <<[isEligible |-> "yes"]>>],
   [statusCode |-> 204, body |-> <<>>],
   [statusCode |-> 200, body |-> <<>>]}

ApiResponses == ApiErrorResponses \cup ApiOkResponses

-----------------------------------------------------------------------------
(* Token manager *)

\* this._grantless_tokens[scope]
GrantlessToken(scope) ==
  IF scope \in DOMAIN grantless_tokens THEN grantless_tokens[scope] ELSE Undefined

\* _tokenExists(scope), on given token slots.
TokenExistsIn(at, gt, scope) ==
  \/ Truthy(at) /\ ~Truthy(scope)
  \/ Truthy(scope) /\ Truthy(IF scope \in DOMAIN gt THEN gt[scope] ELSE Undefined)

\* _tokenExists(scope)
TokenExists(scope) == TokenExistsIn(access_token, grantless_tokens, scope)

\* The body of a token-exchange request.
TokenBody(grant_type, scope, rt) ==
  [client_id |-> "app_client.id", client_secret |-> "app_client.secret",
   grant_type |-> grant_type, scope |-> scope, refresh_token |-> rt]

ConstructRefreshAccessTokenBody_AnyScope(scope) ==
  IF Truthy(scope)
  THEN [error |-> Undefined,
        body |-> <<TokenBody("client_credentials", scope, Undefined)>>]
  ELSE IF ~options.only_grantless_operations
       THEN [error |-> Undefined,
             body |-> <<TokenBody("refresh_token", Undefined, refresh_token)>>]
       ELSE [error |-> "NO_SCOPE_PROVIDED", body |-> <<>>]

\* _constructRefreshAccessTokenBody(scope): the error thrown, or the body.
ConstructRefreshAccessTokenBody(scope) ==
  IF Truthy(scope)
  THEN IF scope \notin valid_scopes
       THEN [error |-> "INVALID_SCOPE_ERROR", body |-> <<>>]
       ELSE [error |-> Undefined,
             body |-> <<TokenBody("client_credentials", scope, Undefined)>>]
  ELSE IF ~options.only_grantless_operations
       THEN [error |-> Undefined,
             body |-> <<TokenBody("refresh_token", Undefined, refresh_token)>>]
       ELSE [error |-> "NO_SCOPE_PROVIDED", body |-> <<>>]

RefreshAccessTokenStore_Drops(scope, res) ==
  [error |-> IF ~res.parses THEN "REFRESH_ACCESS_TOKEN_PARSE_ERROR"
             ELSE IF Truthy(res.access_token) THEN Undefined
             ELSE IF Truthy(res.error) THEN res.error
             ELSE "UNKNOWN_REFRESH_ACCESS_TOKEN_ERROR",
   access_token |-> access_token, grantless_tokens |-> grantless_tokens]

RefreshAccessTokenStore_KeepsFirst(scope, res) ==
  [error |-> IF ~res.parses THEN "REFRESH_ACCESS_TOKEN_PARSE_ERROR"
             ELSE IF Truthy(res.access_token) THEN Undefined
             ELSE IF Truthy(res.error) THEN res.error
             ELSE "UNKNOWN_REFRESH_ACCESS_TOKEN_ERROR",
   access_token |-> IF res.parses /\ Truthy(res.access_token) /\ ~Truthy(scope)
                       /\ ~Truthy(access_token)
                    THEN res.access_token ELSE access_token,
   grantless_tokens |-> IF res.parses /\ Truthy(res.access_token) /\ Truthy(scope)
                        THEN [grantless_tokens EXCEPT ![scope] = res.access_token]
                        ELSE grantless_tokens]

RefreshAccessTokenStore_WritesBoth(scope, res) ==
  [error |-> IF ~res.parses THEN "REFRESH_ACCESS_TOKEN_PARSE_ERROR"
             ELSE IF Truthy(res.access_token) THEN Undefined
             ELSE IF Truthy(res.error) THEN res.error
             ELSE "UNKNOWN_REFRESH_ACCESS_TOKEN_ERROR",
   access_token |-> IF res.parses /\ Truthy(res.access_token)
                    THEN res.access_token ELSE access_token,
   grantless_tokens |-> IF res.parses /\ Truthy(res.access_token) /\ Truthy(scope)
                        THEN [grantless_tokens EXCEPT ![scope] = res.access_token]
                        ELSE grantless_tokens]

\* refreshAccessToken(scope) from the token endpoint's answer on: the error
\* thrown (Undefined when none) and the token slots afterwards.
RefreshAccessTokenStore(scope, res) ==
  IF ~res.parses
  THEN [error |-> "REFRESH_ACCESS_TOKEN_PARSE_ERROR",
        access_token |-> access_token, grantless_tokens |-> grantless_tokens]
  ELSE IF Truthy(res.access_token)
  THEN IF ~Truthy(scope)
       THEN [error |-> Undefined,
             access_token |-> res.access_token, grantless_tokens |-> grantless_tokens]
       ELSE [error |-> Undefined,
             access_token |-> access_token,
             grantless_tokens |-> [grantless_tokens EXCEPT ![scope] = res.access_token]]
  ELSE IF Truthy(res.error)
  THEN [error |-> res.error,
        access_token |-> access_token, grantless_tokens |-> grantless_tokens]
  ELSE [error |-> "UNKNOWN_REFRESH_ACCESS_TOKEN_ERROR",
        access_token |-> access_token, grantless_tokens |-> grantless_tokens]

RefreshRoleCredentialsStore_SwallowsError(res) ==
  IF res.parses /\ res.Credentials # <<>>
  THEN [error |-> Undefined,
        role_credentials |-> <<[id |-> res.Credentials[1].AccessKeyId,
                                secret |-> res.Credentials[1].SecretAccessKey,
                                security_token |-> res.Credentials[1].SessionToken]>>]
  ELSE [error |-> Undefined, role_credentials |-> role_credentials]

RefreshRoleCredentialsStore_ClearsOnFailure(res) ==
  IF ~res.parses
  THEN [error |-> "XML_PARSE_ERROR", role_credentials |-> NoCreds]
  ELSE IF res.Credentials # <<>>
  THEN [error |-> Undefined,
        role_credentials |-> <<[id |-> res.Credentials[1].AccessKeyId,
                                secret |-> res.Credentials[1].SecretAccessKey,
                                security_token |-> res.Credentials[1].SessionToken]>>]
  ELSE IF Truthy(res.Error)
  THEN [error |-> res.Error, role_credentials |-> NoCreds]
  ELSE [error |-> "NO_ROLE_CREDENTIALS_RECEIVED", role_credentials |-> NoCreds]

\* refreshRoleCredentials() from the role-assumption endpoint's answer on: the
\* error thrown (Undefined when none) and the role credentials afterwards.
RefreshRoleCredentialsStore(res) ==
  IF ~res.parses
  THEN [error |-> "XML_PARSE_ERROR", role_credentials |-> role_credentials]
  ELSE IF res.Credentials # <<>>
  THEN [error |-> Undefined,
        role_credentials |-> <<[id |-> res.Credentials[1].AccessKeyId,
                                secret |-> res.Credentials[1].SecretAccessKey,
                                security_token |-> res.Credentials[1].SessionToken]>>]
  ELSE IF Truthy(res.Error)
  THEN [error |-> res.Error, role_credentials |-> role_credentials]
  ELSE [error |-> "NO_ROLE_CREDENTIALS_RECEIVED", role_credentials |-> role_credentials]

-----------------------------------------------------------------------------
(* callAPI: the code from one suspension point to the next, as the call's next
   record and the events it adds to the history *)

Rejected(cr, error) == [cr EXCEPT !.pc = "rejected", !.error = error]

Fail(c, error) == Event(c, "fail", error, Sess)

Scope(cr) == cr.req_params[1].scope

\* The synchronous head of refreshAccessToken(scope): build the body, send the
\* request; pc_wait is where the caller waits for the answer.
SendTokenRequest(c, cr, scope, pc_wait) ==
  LET b == ConstructRefreshAccessTokenBody(scope) IN
  IF b.error # Undefined
  THEN [call |-> Rejected(cr, LocalError(b.error)),
        events |-> <<Fail(c, LocalError(b.error))>>]
  ELSE [call |-> [cr EXCEPT !.pc = pc_wait],
        events |-> <<Event(c, "tokenReq", [body |-> b.body[1], scope |-> scope], Sess)>>]

\* The synchronous head of refreshRoleCredentials(): sign and send the request.
SendRoleRequest(c, cr, pc_wait) ==
  [call |-> [cr EXCEPT !.pc = pc_wait],
   events |-> <<Event(c, "roleReq", [region |-> region], Sess)>>]

AuthPresent_TokenOnly(scope) == TokenExists(scope)

\* The last check of _validateAccessTokenAndRoleCredentials.
AuthPresent(scope) == TokenExists(scope) /\ role_credentials # NoCreds

AuthFinalCheck(c, cr) ==
  IF ~AuthPresent(Scope(cr))
  THEN [call |-> Rejected(cr, LocalError("NO_ACCESS_TOKEN_AND_OR_ROLE_CREDENTIALS_PRESENT")),
        events |-> <<Fail(c, LocalError("NO_ACCESS_TOKEN_AND_OR_ROLE_CREDENTIALS_PRESENT"))>>]
  ELSE [call |-> [cr EXCEPT !.pc = "authed"],
        events |-> <<Event(c, "authOk", [scope |-> Scope(cr)], Sess)>>]

AuthRoleCheck_Always(c, cr) == SendRoleRequest(c, cr, "auth_role")

\* _validateAccessTokenAndRoleCredentials from its role-credentials check on.
AuthRoleCheck(c, cr) ==
  IF role_credentials = NoCreds
  THEN SendRoleRequest(c, cr, "auth_role")
  ELSE AuthFinalCheck(c, cr)

\* _validateAccessTokenAndRoleCredentials(scope) up to its first await.
ValidateAccessTokenAndRoleCredentials(c, cr) ==
  IF options.auto_request_tokens
  THEN IF ~TokenExists(Scope(cr))
       THEN SendTokenRequest(c, cr, Scope(cr), "auth_token")
       ELSE AuthRoleCheck(c, cr)
  ELSE AuthFinalCheck(c, cr)

ValidateOperation_NoGivenCheck(operation) ==
  IF ~Registered(operation) THEN "OPERATION_NOT_FOUND" ELSE Undefined

\* _validateOperation(operation): the code of the error thrown, or Undefined.
ValidateOperation(operation) ==
  IF ~Truthy(operation) THEN "NO_OPERATION_GIVEN"
  ELSE IF ~Registered(operation) THEN "OPERATION_NOT_FOUND"
  ELSE Undefined

ValidateOperationAllowance_WrongPolarity(scope) ==
  IF options.only_grantless_operations /\ Truthy(scope)
  THEN "INVALID_OPERATION_ERROR"
  ELSE Undefined

\* _validateOperationAllowance(scope): the code of the error thrown, or Undefined.
ValidateOperationAllowance(scope) ==
  IF options.only_grantless_operations /\ ~Truthy(scope)
  THEN "INVALID_OPERATION_ERROR"
  ELSE Undefined

\* callAPI(req_params) up to its first await; cr is the call's record with the
\* operation of req_params in it.
EnterCallAPI(c, cr) ==
  LET called == Event(c, "call", [operation |-> cr.operation, retried |-> cr.retries > 0], Sess)
  IN
  IF ValidateOperation(cr.operation) # Undefined
  THEN [call |-> Rejected(cr, LocalError(ValidateOperation(cr.operation))),
        events |-> <<called, Fail(c, LocalError(ValidateOperation(cr.operation)))>>]
  ELSE LET ex == [cr EXCEPT !.req_params = <<Expand(cr.operation)>>] IN
       IF ValidateOperationAllowance(Scope(ex)) # Undefined
       THEN [call |-> Rejected(ex, LocalError(ValidateOperationAllowance(Scope(ex)))),
             events |-> <<called, Fail(c, LocalError(ValidateOperationAllowance(Scope(ex))))>>]
       ELSE LET auth == ValidateAccessTokenAndRoleCredentials(c, ex) IN
            [call |-> auth.call,
             events |-> <<called, Event(c, "ensureAuth", [scope |-> Scope(ex)], Sess)>>
                        \o auth.events]

Classify_IgnoresThrottleOption(statusCode, error) ==
  IF statusCode = 403 /\ error.code = "Unauthorized"
  THEN IF options.auto_request_tokens
       THEN IF AccessTokenExpired(error) THEN "refreshAccessToken"
            ELSE IF SecurityTokenExpired(error) THEN "refreshRoleCredentials"
            ELSE "throw"
       ELSE "throw"
  ELSE IF statusCode = 429 /\ error.code = "QuotaExceeded"
  THEN "wait"
  ELSE IF error.code = "InternalFailure" /\ options.use_sandbox
  THEN "sandbox"
  ELSE "throw"

Classify_SecurityRefreshesToken(statusCode, error) ==
  IF statusCode = 403 /\ error.code = "Unauthorized"
  THEN IF options.auto_request_tokens
       THEN IF AccessTokenExpired(error) \/ SecurityTokenExpired(error)
            THEN "refreshAccessToken"
            ELSE "throw"
       ELSE "throw"
  ELSE IF statusCode = 429 /\ error.code = "QuotaExceeded" /\ options.auto_request_throttled
  THEN "wait"
  ELSE IF error.code = "InternalFailure" /\ options.use_sandbox
  THEN "sandbox"
  ELSE "throw"

\* What callAPI does with the first error of an answer that has an errors list.
Classify(statusCode, error) ==
  IF statusCode = 403 /\ error.code = "Unauthorized"
  THEN IF options.auto_request_tokens
       THEN IF AccessTokenExpired(error) THEN "refreshAccessToken"
            ELSE IF SecurityTokenExpired(error) THEN "refreshRoleCredentials"
            ELSE "throw"
       ELSE "throw"
  ELSE IF statusCode = 429 /\ error.code = "QuotaExceeded" /\ options.auto_request_throttled
  THEN "wait"
  ELSE IF error.code = "InternalFailure" /\ options.use_sandbox
  THEN "sandbox"
  ELSE "throw"

WaitMillis_Unscaled(restore_rate) == restore_rate

\* The delay handed to setTimeout by _wait(restore_rate), in milliseconds.
WaitMillis(restore_rate) == restore_rate * 1000

\* Object.assign(target, source)
ObjectAssign(target, source) ==
  [k \in DOMAIN target \cup DOMAIN source |->
     IF k \in DOMAIN source THEN source[k] ELSE target[k]]

ResultOf_PayloadOnly(json_res) ==
  IF "payload" \in DOMAIN json_res THEN json_res.payload ELSE json_res

\* What callAPI returns for a parsed body without an errors list.  The sections
\* of a body are objects, which are truthy: `json_res.pagination &&
\* json_res.payload` and `json_res.payload ||` test that they are there.
ResultOf(json_res) ==
  IF "pagination" \in DOMAIN json_res /\ "payload" \in DOMAIN json_res
  THEN ObjectAssign(json_res.pagination, json_res.payload)
  ELSE IF "payload" \in DOMAIN json_res THEN json_res.payload
  ELSE json_res

\* new CustomError(error) for an upstream error object.
UpstreamError(error) == [code |-> error.code, message |-> Message(error)]

Resolved(c, cr, value) ==
  [call |-> [cr EXCEPT !.pc = "resolved", !.result = <<value>>],
   events |-> <<Event(c, "return", [result |-> value], Sess)>>]

Thrown(c, cr, error) ==
  [call |-> Rejected(cr, error), events |-> <<Fail(c, error)>>]

HandleResponse_GivesUpAfterOne(c, cr, res) ==
  LET req == cr.req_params[1] IN
  IF res.statusCode = 204 /\ req.method = "DELETE"
  THEN Resolved(c, cr, [success |-> TRUE])
  ELSE IF res.body = <<>>
  THEN Thrown(c, cr, LocalError("JSON_PARSE_ERROR"))
  ELSE LET json_res == res.body[1] IN
       IF "errors" \in DOMAIN json_res
       THEN LET error == json_res.errors[1]
                todo == IF cr.retries >= 1 THEN "throw" ELSE Classify(res.statusCode, error)
                again == [cr EXCEPT !.retries = @ + 1]
            IN
            CASE todo = "refreshAccessToken" ->
                   SendTokenRequest(c, again, req.scope, "retry_token")
              [] todo = "refreshRoleCredentials" ->
                   SendRoleRequest(c, again, "retry_role")
              [] todo = "wait" ->
                   [call |-> [again EXCEPT !.pc = "wait"],
                    events |-> <<Event(c, "wait",
                                       [ms |-> WaitMillis(req.restore_rate)], Sess)>>]
              [] todo = "sandbox" ->
                   Thrown(c, cr, LocalError("INVALID_SANDBOX_PARAMETERS"))
              [] OTHER -> Thrown(c, cr, UpstreamError(error))
       ELSE Resolved(c, cr, ResultOf(json_res))

\* callAPI from the API's answer up to the next await (or its end).
HandleResponse(c, cr, res) ==
  LET req == cr.req_params[1] IN
  IF res.statusCode = 204 /\ req.method = "DELETE"
  THEN Resolved(c, cr, [success |-> TRUE])
  ELSE IF res.body = <<>>
  THEN Thrown(c, cr, LocalError("JSON_PARSE_ERROR"))
  ELSE LET json_res == res.body[1] IN
       IF "errors" \in DOMAIN json_res
       THEN LET error == json_res.errors[1]
                todo == Classify(res.statusCode, error)
                again == [cr EXCEPT !.retries = @ + 1]
            IN
            CASE todo = "refreshAccessToken" ->
                   SendTokenRequest(c, again, req.scope, "retry_token")
              [] todo = "refreshRoleCredentials" ->
                   SendRoleRequest(c, again, "retry_role")
              [] todo = "wait" ->
                   [call |-> [again EXCEPT !.pc = "wait"],
                    events |-> <<Event(c, "wait",
                                       [ms |-> WaitMillis(req.restore_rate)], Sess)>>]
              [] todo = "sandbox" ->
                   Thrown(c, cr, LocalError("INVALID_SANDBOX_PARAMETERS"))
              [] OTHER -> Thrown(c, cr, UpstreamError(error))
       ELSE Resolved(c, cr, ResultOf(json_res))

\* The answer makes callAPI retry.
IsRetry(cr, res) ==
  /\ ~(res.statusCode = 204 /\ cr.req_params[1].method = "DELETE")
  /\ res.body # <<>>
  /\ "errors" \in DOMAIN res.body[1]
  /\ Classify(res.statusCode, res.body[1].errors[1])
       \in {"refreshAccessToken", "refreshRoleCredentials", "wait"}

-----------------------------------------------------------------------------
(* Actions of a callAPI invocation c *)

Apply_ForgetsToken(c, out) ==
  /\ calls' = [calls EXCEPT ![c] = out.call]
  /\ log' = Logged(c, out.events)
  /\ access_token' = IF out.call.pc = "rejected" THEN Undefined ELSE access_token
  /\ UNCHANGED <<inst, ctor_error, region, refresh_token, role_credentials,
                 grantless_tokens, options, xfer>>

\* A step of call c that leaves the session as it is.
Apply(c, out) ==
  /\ calls' = [calls EXCEPT ![c] = out.call]
  /\ log' = Logged(c, out.events)
  /\ UNCHANGED <<session, xfer>>

\* The caller invokes callAPI({operation}).
CallAPI(c, operation) ==
  /\ inst = "ok"
  /\ calls[c].pc = "idle"
  /\ Apply(c, EnterCallAPI(c, [calls[c] EXCEPT !.operation = operation]))

\* The token endpoint answers: the rest of refreshAccessToken(scope).
TokenResponse(c, res) ==
  /\ calls[c].pc \in {"auth_token", "retry_token", "refresh_token"}
  /\ LET cr == calls[c]
         st == RefreshAccessTokenStore(Scope(cr), res)
         after == SessAfter(st.access_token, st.grantless_tokens, role_credentials)
         got == Event(c, "tokenResp", [res |-> res, scope |-> Scope(cr)], after)
         err == [code |-> st.error,
                 message |-> IF st.error = res.error THEN <<"error_description">>
                             ELSE <<"res.body">>]
     IN
     /\ access_token' = st.access_token
     /\ grantless_tokens' = st.grantless_tokens
     /\ IF st.error # Undefined
        THEN /\ calls' = [calls EXCEPT ![c] = Rejected(cr, err)]
             /\ log' = Logged(c, <<got, Event(c, "fail", err, after)>>)
        ELSE /\ calls' = [calls EXCEPT ![c].pc =
                            IF cr.pc = "auth_token" THEN "auth_token_done"
                            ELSE IF cr.pc = "retry_token" THEN "retry_token_done"
                            ELSE "resolved"]
             /\ log' = Logged(c, <<got>>)
  /\ UNCHANGED <<inst, ctor_error, region, refresh_token, role_credentials, options, xfer>>

\* The role-assumption endpoint answers: the rest of refreshRoleCredentials().
RoleResponse(c, res) ==
  /\ calls[c].pc \in {"auth_role", "retry_role", "refresh_role"}
  /\ LET cr == calls[c]
         st == RefreshRoleCredentialsStore(res)
         after == SessAfter(access_token, grantless_tokens, st.role_credentials)
         got == Event(c, "roleResp", [res |-> res], after)
         err == [code |-> st.error,
                 message |-> IF st.error = res.Error THEN <<"Error.Message">>
                             ELSE <<"res.body">>]
     IN
     /\ role_credentials' = st.role_credentials
     /\ IF st.error # Undefined
        THEN /\ calls' = [calls EXCEPT ![c] = Rejected(cr, err)]
             /\ log' = Logged(c, <<got, Event(c, "fail", err, after)>>)
        ELSE /\ calls' = [calls EXCEPT ![c].pc =
                            IF cr.pc = "auth_role" THEN "auth_role_done"
                            ELSE IF cr.pc = "retry_role" THEN "retry_role_done"
                            ELSE "resolved"]
             /\ log' = Logged(c, <<got>>)
  /\ UNCHANGED <<inst, ctor_error, region, refresh_token, access_token, grantless_tokens,
                 options, xfer>>

\* _validateAccessTokenAndRoleCredentials resumes after its refreshAccessToken.
AuthAfterToken(c) ==
  /\ calls[c].pc = "auth_token_done"
  /\ Apply(c, AuthRoleCheck(c, calls[c]))

\* _validateAccessTokenAndRoleCredentials resumes after its refreshRoleCredentials.
AuthAfterRole(c) ==
  /\ calls[c].pc = "auth_role_done"
  /\ Apply(c, AuthFinalCheck(c, calls[c]))

TokenForRequest_AlwaysSingleton(scope) == access_token

\* token_for_request of callAPI.
TokenForRequest(scope) == IF Truthy(scope) THEN GrantlessToken(scope) ELSE access_token

\* callAPI resumes after _validateAccessTokenAndRoleCredentials: signs and sends.
SendAPIRequest(c) ==
  /\ calls[c].pc = "authed"
  /\ Apply(c, [call |-> [calls[c] EXCEPT !.pc = "api"],
               events |-> <<Event(c, "apiReq",
                                  [token |-> TokenForRequest(Scope(calls[c])),
                                   role_credentials |-> role_credentials,
                                   req_params |-> calls[c].req_params[1],
                                   use_sandbox |-> options.use_sandbox], Sess)>>])

\* The API answers.
APIResponse(c, res) ==
  /\ calls[c].pc = "api"
  /\ IsRetry(calls[c], res) => calls[c].retries < MaxRetries
  /\ LET out == HandleResponse(c, calls[c], res) IN
     Apply(c, [call |-> out.call,
               events |-> <<Event(c, "apiResp", [res |-> res], Sess)>> \o out.events])

\* callAPI resumes after the refresh of an expiry answer: callAPI(req_params) again.
RetryAfterRefresh(c) ==
  /\ calls[c].pc \in {"retry_token_done", "retry_role_done"}
  /\ Apply(c, EnterCallAPI(c, calls[c]))

\* The timer of _wait fires: callAPI(req_params) again.
WaitDone(c) ==
  /\ calls[c].pc = "wait"
  /\ Apply(c, EnterCallAPI(c, calls[c]))

CallStep(c) ==
  \/ \E operation \in OperationIds : CallAPI(c, operation)
  \/ \E res \in TokenResponses : TokenResponse(c, res)
  \/ \E res \in RoleResponses : RoleResponse(c, res)
  \/ AuthAfterToken(c)
  \/ AuthAfterRole(c)
  \/ SendAPIRequest(c)
  \/ \E res \in ApiResponses : APIResponse(c, res)
  \/ RetryAfterRefresh(c)
  \/ WaitDone(c)

-----------------------------------------------------------------------------
(* refreshAccessToken and refreshRoleCredentials invoked by the caller itself *)

\* The scopes callers pass to refreshAccessToken.
RefreshScopes == {Undefined, ""} \cup valid_scopes \cup {"sellingpartnerapi::orders"}

\* The number of refreshes caller c has invoked itself.
Refreshes(c) ==
  Len(SelectSeq(log[c], LAMBDA e : e.kind \in {"refreshAccessToken", "refreshRoleCredentials"}))

\* The caller invokes refreshAccessToken(scope): up to its await on the request.
RefreshAccessToken(c, scope) ==
  /\ inst = "ok"
  /\ calls[c].pc \in {"idle", "resolved", "rejected"}
  /\ Refreshes(c) < MaxRefreshes
  /\ LET cr == [IdleCall EXCEPT !.req_params = <<[scope |-> scope]>>]
         out == SendTokenRequest(c, cr, scope, "refresh_token")
     IN
     Apply(c, [call |-> out.call,
               events |-> <<Event(c, "refreshAccessToken", [scope |-> scope], Sess)>>
                          \o out.events])

\* The caller invokes refreshRoleCredentials(): up to its await on the request.
RefreshRoleCredentials(c) ==
  /\ inst = "ok"
  /\ calls[c].pc \in {"idle", "resolved", "rejected"}
  /\ Refreshes(c) < MaxRefreshes
  /\ LET out == SendRoleRequest(c, IdleCall, "refresh_role") IN
     Apply(c, [call |-> out.call,
               events |-> <<Event(c, "refreshRoleCredentials", [region |-> region], Sess)>>
                          \o out.events])

-----------------------------------------------------------------------------
(* download and upload.  Their awaits on zlib, the csv parser and the file
   system touch nothing but the call's own locals: they are folded into the
   step that reaches them, with the environment choosing whether they succeed. *)

ValidateEncryptionDetails_NoStandardCheck(details) ==
  IF details = <<>> \/ details[1].encryptionDetails = <<>> \/ ~Truthy(details[1].url)
  THEN "DOWNLOAD_INFORMATION_MISSING"
  ELSE IF Truthy(details[1].compressionAlgorithm) /\ details[1].compressionAlgorithm # "GZIP"
  THEN "UNKNOWN_ZIP_STANDARD"
  ELSE Undefined

\* _validateEncryptionDetails(details): the code of the error thrown, or
\* Undefined.  details is <<>> (none) or <<d>>; so is d.encryptionDetails.
ValidateEncryptionDetails(details) ==
  IF details = <<>> \/ details[1].encryptionDetails = <<>> \/ ~Truthy(details[1].url)
  THEN "DOWNLOAD_INFORMATION_MISSING"
  ELSE IF details[1].encryptionDetails[1].standard # "AES"
  THEN "UNKNOWN_ENCRYPTION_STANDARD"
  ELSE IF Truthy(details[1].compressionAlgorithm) /\ details[1].compressionAlgorithm # "GZIP"
  THEN "UNKNOWN_ZIP_STANDARD"
  ELSE Undefined

\* _validateUpOrDownloadSuccess(res, request_type): the code of the error
\* thrown, or Undefined.  res.xml is "unparsable", "Error" (an <Error> document
\* with res.code) or "other".
ValidateUpOrDownloadSuccess(res, request_type) ==
  LET type_error == IF request_type = "DOWNLOAD" THEN "DOWNLOAD_ERROR" ELSE "UPLOAD_ERROR" IN
  IF res.statusCode # 200
  THEN IF res.xml = "unparsable" THEN type_error
       ELSE IF res.xml = "Error" THEN res.code
       ELSE type_error
  ELSE Undefined

\* The details handed to download and upload.
TransferDetails ==
  {<<>>} \cup
  {<<d>> : d \in [encryptionDetails : {<<>>} \cup {<<[standard |-> st]>> :
                                                     st \in {"AES", "DES", Undefined}},
                  url : {Undefined, "https://presigned"},
                  compressionAlgorithm : {Undefined, "GZIP", "ZIP"}]}

\* The options handed to download (unzip as Object.assign({unzip:true}, options)
\* leaves it).
DownloadOptions ==
  [unzip : BOOLEAN, json : BOOLEAN, charset : {Undefined, "cp1252", "no-such-charset"},
   file : {Undefined, "/tmp/report"}]

\* The feeds handed to upload.
Feeds ==
  {<<>>} \cup
  {<<f>> : f \in [content : {Undefined, "<xml/>"}, file : {Undefined, "/tmp/feed"},
                  contentType : {Undefined, "text/xml; charset=utf-8"}]}

\* Answers of a presigned URL: the status, the error document of a failure, the
\* content type, and whether the body is a ciphertext of the key and IV.
TransferResponses ==
  [statusCode : {200}, xml : {"other"}, code : {Undefined},
   content_type : {"text/xml", "text/plain", "application/octet-stream"},
   decrypts : BOOLEAN]
  \cup
  [statusCode : {403}, xml : {"unparsable", "other"}, code : {Undefined},
   content_type : {"application/xml"}, decrypts : {FALSE}]
  \cup
  [statusCode : {403}, xml : {"Error"}, code : {"AccessDenied"},
   content_type : {"application/xml"}, decrypts : {FALSE}]

\* Whether the local steps succeed: gunzip, the xml/csv transformation, the
\* file system.
LocalOutcomes == [gunzips : BOOLEAN, transforms : BOOLEAN, file_ok : BOOLEAN]

\* download(details, options) up to its await on the request.
Download(details, opts) ==
  /\ inst = "ok"
  /\ xfer.pc = "idle"
  /\ LET started == Event("transfer", "download", [details |-> details], Sess)
         invoked == [xfer EXCEPT !.op = "download", !.details = details, !.options = <<opts>>]
         code == ValidateEncryptionDetails(details)
     IN
     IF code # Undefined
     THEN /\ xfer' = [invoked EXCEPT !.pc = "rejected", !.error = LocalError(code)]
          /\ log' = Logged("transfer", <<started, Fail("transfer", LocalError(code))>>)
     ELSE /\ xfer' = [invoked EXCEPT !.pc = "fetch"]
          /\ log' = Logged("transfer",
                           <<started, Event("transfer", "transferReq",
                                            [method |-> "GET", url |-> details[1].url],
                                            Sess)>>)
  /\ UNCHANGED <<session, calls>>

\* What download returns or throws once the document is there.
Downloaded(details, opts, res, env) ==
  LET d == details[1]
      zipped == Truthy(d.compressionAlgorithm)
      textual == ~zipped \/ opts.unzip
      json == textual /\ opts.json
      transformed == json /\ res.content_type \in {"text/xml", "text/plain"}
      ok(value) == [error |-> NoError, result |-> <<value>>]
      failed(code) == [error |-> LocalError(code), result |-> <<>>]
  IN
  IF ValidateUpOrDownloadSuccess(res, "DOWNLOAD") # Undefined
  THEN failed(ValidateUpOrDownloadSuccess(res, "DOWNLOAD"))
  ELSE IF ~res.decrypts THEN failed("ERR_OSSL_BAD_DECRYPT")
  ELSE IF zipped /\ opts.unzip /\ ~env.gunzips THEN failed("Z_DATA_ERROR")
  ELSE IF textual /\ opts.charset = "no-such-charset" THEN failed("DECODE_ERROR")
  ELSE IF transformed /\ ~env.transforms THEN failed("PARSE_ERROR")
  ELSE IF Truthy(opts.file) /\ ~env.file_ok THEN failed("ENOENT")
  ELSE ok([form |-> IF transformed THEN "json" ELSE IF textual THEN "string" ELSE "buffer",
           unzipped |-> zipped /\ opts.unzip,
           saved |-> Truthy(opts.file)])

\* The presigned URL answers the GET: the rest of download.
DownloadResponse(res, env) ==
  /\ xfer.pc = "fetch"
  /\ LET out == Downloaded(xfer.details, xfer.options[1], res, env)
         got == Event("transfer", "transferResp", [res |-> res], Sess)
     IN
     /\ xfer' = [xfer EXCEPT !.pc = IF out.error = NoError THEN "resolved" ELSE "rejected",
                             !.error = out.error, !.result = out.result]
     /\ log' = Logged("transfer",
                      <<got, IF out.error = NoError
                             THEN Event("transfer", "return", [result |-> out.result[1]], Sess)
                             ELSE Fail("transfer", out.error)>>)
  /\ UNCHANGED <<session, calls>>

\* upload(details, feed): the code of the error thrown before the PUT, or
\* Undefined.
UploadError(details, feed, env) ==
  IF ValidateEncryptionDetails(details) # Undefined
  THEN ValidateEncryptionDetails(details)
  ELSE IF feed = <<>> \/ (~Truthy(feed[1].content) /\ ~Truthy(feed[1].file))
  THEN "NO_FEED_CONTENT_PROVIDED"
  ELSE IF ~Truthy(feed[1].contentType)
  THEN "NO_FEED_CONTENT_TYPE_PROVIDED"
  ELSE IF ~Truthy(feed[1].content) /\ ~env.file_ok
  THEN "ENOENT"
  ELSE Undefined

\* upload(details, feed) up to its await on the request.
Upload(details, feed, env) ==
  /\ inst = "ok"
  /\ xfer.pc = "idle"
  /\ LET started == Event("transfer", "upload", [details |-> details], Sess)
         invoked == [xfer EXCEPT !.op = "upload", !.details = details, !.options = feed]
         code == UploadError(details, feed, env)
     IN
     IF code # Undefined
     THEN /\ xfer' = [invoked EXCEPT !.pc = "rejected", !.error = LocalError(code)]
          /\ log' = Logged("transfer", <<started, Fail("transfer", LocalError(code))>>)
     ELSE /\ xfer' = [invoked EXCEPT !.pc = "put"]
          /\ log' = Logged("transfer",
                           <<started, Event("transfer", "transferReq",
                                            [method |-> "PUT", url |-> details[1].url],
                                            Sess)>>)
  /\ UNCHANGED <<session, calls>>

\* The presigned URL answers the PUT: the rest of upload.
UploadResponse(res) ==
  /\ xfer.pc = "put"
  /\ LET code == ValidateUpOrDownloadSuccess(res, "UPLOAD")
         got == Event("transfer", "transferResp", [res |-> res], Sess)
     IN
     IF code # Undefined
     THEN /\ xfer' = [xfer EXCEPT !.pc = "rejected", !.error = LocalError(code)]
          /\ log' = Logged("transfer", <<got, Fail("transfer", LocalError(code))>>)
     ELSE /\ xfer' = [xfer EXCEPT !.pc = "resolved", !.result = <<[success |-> TRUE]>>]
          /\ log' = Logged("transfer",
                           <<got, Event("transfer", "return",
                                        [result |-> [success |-> TRUE]], Sess)>>)
  /\ UNCHANGED <<session, calls>>

-----------------------------------------------------------------------------
(* Specifications *)

\* Configurations of the clients that make calls: those the constructor accepts.
\* The refresh token is read only to build the body of a non-grantless token
\* exchange, which only_grantless_operations rules out; it is left out then.
CallConfigs ==
  {config \in [region : {"eu"}, refresh_token : {Undefined, "Atzr|refresh"},
               access_token : SeedAccessTokens, role_credentials : SeedRoleCredentials,
               options : [OptionKeys -> BOOLEAN]] :
     /\ ConstructorError(config) = Undefined
     /\ config.options.only_grantless_operations => config.refresh_token = Undefined}

\* After new SellingPartner(config) returned a client.
Init ==
  \E config \in CallConfigs :
    /\ inst = "ok"
    /\ ctor_error = Undefined
    /\ region = config.region
    /\ refresh_token = config.refresh_token
    /\ access_token = config.access_token
    /\ role_credentials = config.role_credentials
    /\ grantless_tokens = EmptyGrantless
    /\ options = MergeOptions(config.options)
    /\ calls = [c \in Calls |-> IdleCall]
    /\ xfer = IdleXfer
    /\ log = [a \in Actors |->
                IF a = "new"
                THEN <<[Event("new", "construct", [config |-> config],
                              SessAfter(config.access_token, EmptyGrantless,
                                        config.role_credentials)) EXCEPT !.at = 1]>>
                ELSE <<>>]

\* One callAPI in flight.
Next == CallStep("c1")

Spec == Init /\ [][Next]_vars

\* A client with the default options, with or without seeded tokens.
InitTransfer == Init /\ options = DefaultOptions

NextTransfer ==
  \/ \E details \in TransferDetails, opts \in DownloadOptions : Download(details, opts)
  \/ \E res \in TransferResponses, env \in LocalOutcomes : DownloadResponse(res, env)
  \/ \E details \in TransferDetails, feed \in Feeds, env \in LocalOutcomes :
       Upload(details, feed, env)
  \/ \E res \in TransferResponses : UploadResponse(res)

SpecTransfer == InitTransfer /\ [][NextTransfer]_vars

\* A client with the default options but for only_grantless_operations.
InitRefresh ==
  /\ Init
  /\ \A k \in OptionKeys \ {"only_grantless_operations"} : options[k] = DefaultOptions[k]

\* One caller that invokes the refresh methods, one after the other.
NextRefresh ==
  \/ \E scope \in RefreshScopes : RefreshAccessToken("c1", scope)
  \/ \E res \in TokenResponses : TokenResponse("c1", res)
  \/ RefreshRoleCredentials("c1")
  \/ \E res \in RoleResponses : RoleResponse("c1", res)

SpecRefresh == InitRefresh /\ [][NextRefresh]_vars

\* A client with the default options and a refresh token, constructed without an
\* access token.
InitTwoCalls ==
  /\ Init
  /\ options = DefaultOptions
  /\ access_token = Undefined

\* Answers of the API that end a call: a payload, an error that is propagated.
FinalApiResponses ==
  {res \in ApiResponses :
     /\ res.statusCode \in {200, 400}
     /\ res.body # <<>>
     /\ DOMAIN res.body[1] \in {{"payload"}, {"errors"}}}

\* Two invocations of callAPI for a non-grantless operation on the same client;
\* the steps of the two interleave at their awaits.
NextTwoCalls ==
  \E c \in Calls :
    \/ CallAPI(c, "getOrders")
    \/ \E res \in TokenResponses : TokenResponse(c, res)
    \/ \E res \in RoleResponses : RoleResponse(c, res)
    \/ AuthAfterToken(c)
    \/ AuthAfterRole(c)
    \/ SendAPIRequest(c)
    \/ \E res \in FinalApiResponses : APIResponse(c, res)

SpecTwoCalls == InitTwoCalls /\ [][NextTwoCalls]_vars

\* The steps of call c that are not the caller's: answers of the endpoints, the
\* timer of _wait, and the resumptions of the call at its awaits.
Resume(c) ==
  \/ \E res \in TokenResponses : TokenResponse(c, res)
  \/ \E res \in RoleResponses : RoleResponse(c, res)
  \/ AuthAfterToken(c)
  \/ AuthAfterRole(c)
  \/ SendAPIRequest(c)
  \/ \E res \in ApiResponses : APIResponse(c, res)
  \/ RetryAfterRefresh(c)
  \/ WaitDone(c)

\* A client with the default options.
InitLive == Init /\ options = DefaultOptions

\* One callAPI in flight; every request is answered, the timer fires and a
\* resolved await resumes the call.
SpecLive == InitLive /\ [][Next]_vars /\ WF_vars(Resume("c1"))

\* The client is used for one callAPI or for one download or upload.
NextFrame ==
  \/ xfer.pc = "idle" /\ CallStep("c1")
  \/ calls["c1"].pc = "idle" /\ NextTransfer

\* A client that is not grantless-only and does not use the sandbox endpoint.
InitFrame == Init /\ ~options.use_sandbox /\ ~options.only_grantless_operations

SpecFrame == InitFrame /\ [][NextFrame]_vars

\* A client with auto_request_tokens enabled, the other options as given.
InitAuto == Init /\ options.auto_request_tokens

\* One callAPI in flight on such a client.
SpecAuto == InitAuto /\ [][Next]_vars

\* Before `new SellingPartner(config)`.
InitCtor ==
  /\ inst = "none"
  /\ ctor_error = Undefined
  /\ region = Undefined
  /\ refresh_token = Undefined
  /\ access_token = Undefined
  /\ role_credentials = NoCreds
  /\ grantless_tokens = EmptyGrantless
  /\ options = DefaultOptions
  /\ calls = [c \in Calls |-> IdleCall]
  /\ xfer = IdleXfer
  /\ log = [a \in Actors |-> <<>>]

NextCtor == \E config \in Configs : Construct(config)

SpecCtor == InitCtor /\ [][NextCtor]_vars

-----------------------------------------------------------------------------
(* Reading the history *)

\* The events of call c, in order.
CallLog(c) == log[c]

\* The events of call c that are API requests, API answers, waits and its end.
ApiLog(c) ==
  SelectSeq(log[c], LAMBDA e : e.kind \in {"apiReq", "apiResp", "wait", "return", "fail"})

\* The API answers call c got, in order.
ApiAnswers(c) == SelectSeq(log[c], LAMBDA e : e.kind = "apiResp")

\* The configuration the client was constructed with.
GivenConfig == log["new"][1].d.config

\* An event of kind `kinds` is in the history.
Happened(kinds) == \E a \in Actors : \E i \in DOMAIN log[a] : log[a][i].kind \in kinds

NetworkKinds == {"tokenReq", "roleReq", "apiReq", "transferReq"}

\* The answer is a 429 whose first error has code "QuotaExceeded".
IsThrottled(res) ==
  /\ res.statusCode = 429
  /\ res.body # <<>>
  /\ "errors" \in DOMAIN res.body[1]
  /\ res.body[1].errors[1].code = "QuotaExceeded"

\* The answer is a 200 whose body is {payload: ...}.
IsPayload(res) ==
  /\ res.statusCode = 200
  /\ res.body # <<>>
  /\ DOMAIN res.body[1] = {"payload"}

\* The answer is a 403 whose first error has code "Unauthorized".
IsUnauthorized(res) ==
  /\ res.statusCode = 403
  /\ res.body # <<>>
  /\ "errors" \in DOMAIN res.body[1]
  /\ res.body[1].errors[1].code = "Unauthorized"

FirstError(res) == res.body[1].errors[1]

\* Every session field is as the constructor left it.
SessionAsConstructed ==
  /\ region = GivenConfig.region
  /\ refresh_token = GivenConfig.refresh_token
  /\ access_token = GivenConfig.access_token
  /\ role_credentials = GivenConfig.role_credentials
  /\ grantless_tokens = EmptyGrantless
  /\ options = MergeOptions(GivenConfig.options)

-----------------------------------------------------------------------------
(* C1 *)

\* Call c was answered by k throttled answers and then by a 200 with a payload.
ThrottledThenPayload(c, k) ==
  LET R == ApiAnswers(c) IN
  /\ options.auto_request_throttled
  /\ Len(R) = k + 1
  /\ \A n \in 1..k : IsThrottled(R[n].d.res)
  /\ IsPayload(R[k + 1].d.res)

\* C1: with auto_request_throttled enabled, a callAPI answered by k consecutive
\* 429 "QuotaExceeded" answers and then by a 200 with a payload returns that
\* payload; it has sent exactly k+1 API requests and made exactly k waits, each of
\* restore_rate seconds (restore_rate * 1000 ms), each between the throttled
\* answer and the next request.
C1_ThrottleRetry ==
  \A c \in Calls : \A k \in 0..(MaxRetries + 1) :
    ThrottledThenPayload(c, k) =>
      LET P == ApiLog(c)
          rate == calls[c].req_params[1].restore_rate
      IN
      /\ calls[c].pc = "resolved"
      /\ calls[c].result = <<ApiAnswers(c)[k + 1].d.res.body[1].payload>>
      /\ Len(P) = 3 * k + 3
      /\ \A n \in 0..(k - 1) :
           /\ P[3 * n + 1].kind = "apiReq"
           /\ P[3 * n + 2].kind = "apiResp"
           /\ P[3 * n + 3].kind = "wait"
           /\ P[3 * n + 3].d.ms = rate * 1000
      /\ P[3 * k + 1].kind = "apiReq"
      /\ P[3 * k + 2].kind = "apiResp"
      /\ P[3 * k + 3].kind = "return"
      /\ P[3 * k + 3].d.result = ApiAnswers(c)[k + 1].d.res.body[1].payload

\* A call that was throttled MaxRetries times and then returned the payload.
C1_Witness ==
  /\ MaxRetries >= 2
  /\ ThrottledThenPayload("c1", MaxRetries)
  /\ calls["c1"].pc = "resolved"

-----------------------------------------------------------------------------
(* C5 *)

-----------------------------------------------------------------------------
(* C6, C7 *)

\* C6: constructing a client whose region is missing or not one of "eu", "na",
\* "fe" fails with NO_VALID_REGION_PROVIDED whatever the other fields are.
C6_InvalidRegion ==
  (inst # "none" /\ GivenConfig.region \notin {"eu", "na", "fe"}) =>
    /\ inst = "failed"
    /\ ctor_error = "NO_VALID_REGION_PROVIDED"

\* A construction with an invalid region, a refresh token and seeded tokens.
C6_Witness ==
  /\ inst = "failed"
  /\ GivenConfig.region = "us"
  /\ GivenConfig.refresh_token = "Atzr|refresh"
  /\ GivenConfig.access_token # Undefined

NoRefreshToken(config) ==
  /\ config.refresh_token \in {Undefined, ""}
  /\ ~MergeOptions(config.options).only_grantless_operations

\* C7 as stated: constructing a client with no refresh token and
\* only_grantless_operations false always fails with NO_REFRESH_TOKEN_PROVIDED.
C7_AsStated ==
  (inst # "none" /\ NoRefreshToken(GivenConfig)) =>
    /\ inst = "failed"
    /\ ctor_error = "NO_REFRESH_TOKEN_PROVIDED"

\* C7 amended: such a construction always fails, with NO_REFRESH_TOKEN_PROVIDED
\* when the region is valid and with NO_VALID_REGION_PROVIDED otherwise; and no
\* client exists with only_grantless_operations false and no refresh token.
C7_MissingRefreshToken ==
  /\ (inst # "none" /\ NoRefreshToken(GivenConfig)) =>
       /\ inst = "failed"
       /\ ctor_error = IF GivenConfig.region \in {"eu", "na", "fe"}
                       THEN "NO_REFRESH_TOKEN_PROVIDED"
                       ELSE "NO_VALID_REGION_PROVIDED"
  /\ inst = "ok" => (options.only_grantless_operations \/ Truthy(refresh_token))

\* A construction with a valid region and no refresh token failed.
C7_Witness ==
  /\ inst = "failed"
  /\ GivenConfig.region = "na"
  /\ NoRefreshToken(GivenConfig)

-----------------------------------------------------------------------------
(* C2 *)

\* The answer is a 403 "Unauthorized" whose details say the access token expired.
IsAccessExpiry(res) ==
  IsUnauthorized(res) /\ RegexTest("access token", Details(FirstError(res)))

\* The answer is a 403 "Unauthorized" whose message says the security token
\* expired and that is no access-token expiry.
IsSecurityExpiry(res) ==
  /\ IsUnauthorized(res)
  /\ RegexTest("security token", Message(FirstError(res)))
  /\ ~RegexTest("access token", Details(FirstError(res)))

\* The positions, in the events of call c, of its API answers.
AnswerAt(c) == {p \in DOMAIN CallLog(c) : CallLog(c)[p].kind = "apiResp"}

\* Call c is not grantless, its first answer was an access-token expiry, the token
\* refresh after it succeeded and its second answer was a 200 with a payload.
ExpiredThenPayload(c) ==
  LET L == CallLog(c)
      R == ApiAnswers(c)
  IN
  /\ options.auto_request_tokens
  /\ calls[c].req_params # <<>>
  /\ ~Truthy(Scope(calls[c]))
  /\ Len(R) = 2
  /\ IsAccessExpiry(R[1].d.res)
  /\ IsPayload(R[2].d.res)
  /\ \E p \in AnswerAt(c) :
       /\ L[p] = R[1]
       /\ L[p + 2].kind = "tokenResp"
       /\ Truthy(L[p + 2].d.res.access_token)

\* C2: with auto_request_tokens enabled, a non-grantless callAPI whose first
\* answer is an access-token expiry (403, "Unauthorized", details matching
\* "access token ... expired"), whose token refresh then succeeds and whose second
\* answer is a 200, returns the second answer's payload; the session's access
\* token is the token the refresh returned; the second API request is sent after
\* the refresh has completed and carries the refreshed token.
C2_ExpiredTokenRetry ==
  \A c \in Calls :
    ExpiredThenPayload(c) =>
      LET L == CallLog(c)
          R == ApiAnswers(c)
          p == CHOOSE q \in AnswerAt(c) : L[q] = R[1]
          refreshed == L[p + 2].d.res.access_token
          reqs == {q \in DOMAIN L : L[q].kind = "apiReq"}
      IN
      /\ calls[c].pc = "resolved"
      /\ calls[c].result = <<R[2].d.res.body[1].payload>>
      /\ access_token = refreshed
      /\ L[p + 1].kind = "tokenReq"
      /\ Cardinality(reqs) = 2
      /\ \A q \in reqs : q > p => (q > p + 2 /\ L[q].d.token = refreshed)

\* A call whose seeded access token had expired returned after the refresh.
C2_Witness ==
  /\ ExpiredThenPayload("c1")
  /\ calls["c1"].pc = "resolved"
  /\ GivenConfig.access_token = "Atza|seed"
  /\ access_token \in IssuedTokens

-----------------------------------------------------------------------------
(* C3 *)

\* The scope of call c, once callAPI has expanded the request.
ScopeOf(c) == calls[c].req_params[1].scope

\* After the answer at position p of call c's events, callAPI refreshes the
\* access token for the call's scope and, once the refresh has succeeded, invokes
\* callAPI again with the same operation request.
RefreshesTokenAndRetries(c, p) ==
  LET L == CallLog(c) IN
  /\ L[p + 1].kind = "tokenReq"
  /\ L[p + 1].d.scope = ScopeOf(c)
  /\ (Len(L) >= p + 3 /\ Truthy(L[p + 2].d.res.access_token)) =>
       /\ L[p + 3].kind = "call"
       /\ L[p + 3].d.operation = calls[c].operation
       /\ \A q \in DOMAIN L :
            L[q].kind = "apiReq" => L[q].d.req_params = calls[c].req_params[1]

\* C3 as stated: the access-token-expiry retry is decided on the first error's
\* message: a 403 "Unauthorized" answer whose message matches "access token ...
\* expired" makes callAPI (auto_request_tokens enabled) refresh the access token
\* and call itself again.
C3_AsStated ==
  options.auto_request_tokens =>
    \A c \in Calls : \A p \in AnswerAt(c) :
      (/\ IsUnauthorized(CallLog(c)[p].d.res)
       /\ RegexTest("access token", Message(FirstError(CallLog(c)[p].d.res))))
      => RefreshesTokenAndRetries(c, p)

\* C3 amended: the retry is decided on the first error's details: a 403
\* "Unauthorized" answer whose details match "access token ... expired" makes
\* callAPI (auto_request_tokens enabled) refresh the access token for the call's
\* scope and, when the refresh succeeds, call itself again with the same
\* operation request.
C3_ExpiryDecidedOnDetails ==
  options.auto_request_tokens =>
    \A c \in Calls : \A p \in AnswerAt(c) :
      IsAccessExpiry(CallLog(c)[p].d.res) => RefreshesTokenAndRetries(c, p)

\* A call got an access-token expiry in the details (the message says something
\* else), refreshed the token and was invoked again.
C3_Witness ==
  \E p \in AnswerAt("c1") :
    /\ IsAccessExpiry(CallLog("c1")[p].d.res)
    /\ Message(FirstError(CallLog("c1")[p].d.res)) = TextDenied
    /\ Len(CallLog("c1")) >= p + 3
    /\ CallLog("c1")[p + 3].kind = "call"

-----------------------------------------------------------------------------
(* C4 *)

\* C4: with auto_request_tokens enabled, a 403 "Unauthorized" answer whose message
\* matches "security token ... expired" and that is no access-token expiry makes
\* callAPI refresh the role credentials and, when that succeeds, retry the call
\* with the new credentials; from the answer to the retried API request no
\* token-exchange request is sent and the access token and the grantless-token
\* cache stay as they were.
C4_SecurityTokenRetry ==
  options.auto_request_tokens =>
  \A c \in Calls : \A p \in AnswerAt(c) :
    LET L == CallLog(c) IN
    IsSecurityExpiry(L[p].d.res) =>
      /\ L[p + 1].kind = "roleReq"
      /\ Len(L) >= p + 2 => L[p + 2].kind = "roleResp"
      /\ (Len(L) >= p + 3 /\ L[p + 2].d.res.Credentials # <<>>) =>
           /\ L[p + 3].kind = "call"
           /\ L[p + 3].d.operation = calls[c].operation
           /\ L[p + 4].kind = "ensureAuth"
           /\ L[p + 5].kind = "authOk"
      /\ Len(L) >= p + 6 =>
           /\ L[p + 6].kind = "apiReq"
           /\ L[p + 6].d.req_params = calls[c].req_params[1]
           /\ L[p + 6].d.role_credentials =
                <<[id |-> L[p + 2].d.res.Credentials[1].AccessKeyId,
                   secret |-> L[p + 2].d.res.Credentials[1].SecretAccessKey,
                   security_token |-> L[p + 2].d.res.Credentials[1].SessionToken]>>
      /\ \A n \in 1..6 : Len(L) >= p + n =>
           /\ L[p + n].kind \notin {"tokenReq", "tokenResp"}
           /\ L[p + n].sess.access_token = L[p].sess.access_token
           /\ L[p + n].sess.grantless_tokens = L[p].sess.grantless_tokens

\* A grantless call got a security-token expiry, refreshed the role credentials
\* and sent the API request again.
C4_Witness ==
  \E p \in AnswerAt("c1") :
    /\ IsSecurityExpiry(CallLog("c1")[p].d.res)
    /\ Truthy(ScopeOf("c1"))
    /\ Len(CallLog("c1")) >= p + 6
    /\ CallLog("c1")[p + 6].kind = "apiReq"

-----------------------------------------------------------------------------
(* C9, C10 *)

\* The positions, in the events of call c, where
\* _validateAccessTokenAndRoleCredentials starts.
AuthAt(c) == {p \in DOMAIN CallLog(c) : CallLog(c)[p].kind = "ensureAuth"}

TokenIn(sess, scope) == TokenExistsIn(sess.access_token, sess.grantless_tokens, scope)

\* No refresh request has been sent and no session field has changed.
NothingRefreshed ==
  /\ ~Happened({"tokenReq", "roleReq"})
  /\ SessionAsConstructed

\* C9 as stated: with auto_request_tokens disabled ensureAuth is a no-op whenever
\* a token for the call is present: it succeeds, sends no refresh request and
\* changes no session field.
C9_AsStated ==
  ~options.auto_request_tokens =>
  \A c \in Calls : \A p \in AuthAt(c) :
    LET L == CallLog(c) IN
    TokenIn(L[p].sess, L[p].d.scope) =>
      /\ L[p + 1].kind = "authOk"
      /\ NothingRefreshed

\* C9 amended: with auto_request_tokens disabled ensureAuth sends no refresh
\* request and changes no session field; it succeeds when the token for the call
\* and the role credentials are both present, and fails with
\* NO_ACCESS_TOKEN_AND_OR_ROLE_CREDENTIALS_PRESENT when either is absent.
C9_NoOpWhenDisabled ==
  ~options.auto_request_tokens =>
  \A c \in Calls : \A p \in AuthAt(c) :
    LET L == CallLog(c) IN
      /\ NothingRefreshed
      /\ IF TokenIn(L[p].sess, L[p].d.scope) /\ L[p].sess.role_credentials # NoCreds
         THEN L[p + 1].kind = "authOk"
         ELSE /\ L[p + 1].kind = "fail"
              /\ L[p + 1].d.code = "NO_ACCESS_TOKEN_AND_OR_ROLE_CREDENTIALS_PRESENT"

\* ensureAuth succeeded with auto_request_tokens disabled on seeded tokens.
C9_Witness ==
  /\ ~options.auto_request_tokens
  /\ \E p \in AuthAt("c1") : CallLog("c1")[p + 1].kind = "authOk"

\* The ensureAuth that starts at position p of call c's events has ended.
AuthEnded(c, p) ==
  \E q \in DOMAIN CallLog(c) : q > p /\ CallLog(c)[q].kind \in {"authOk", "fail"}

\* The kinds of the events of the ensureAuth that starts at position p.
AuthKinds(c, p) ==
  LET L == CallLog(c)
      last == CHOOSE q \in DOMAIN L :
                /\ q > p
                /\ L[q].kind \in {"authOk", "fail"}
                /\ \A r \in (p + 1)..(q - 1) : L[r].kind \notin {"authOk", "fail"}
  IN [n \in 1..(last - p) |-> L[p + n].kind]

Has(kinds, kind) == \E n \in DOMAIN kinds : kinds[n] = kind

\* When the ensureAuth that starts at position p succeeded, the token for its
\* scope and the role credentials were present.
AuthOkPresent(c, p) ==
  LET L == CallLog(c)
      q == p + Len(AuthKinds(c, p))
  IN
  /\ TokenIn(L[q].sess, L[p].d.scope)
  /\ L[q].sess.role_credentials # NoCreds

\* C10 as stated: with auto_request_tokens enabled ensureAuth sends a
\* token-exchange request iff the token for the call's scope is absent and a
\* role-assumption request iff the role credentials are absent; when it returns
\* successfully both are present.
C10_AsStated ==
  options.auto_request_tokens =>
  \A c \in Calls : \A p \in AuthAt(c) :
    LET L == CallLog(c) IN
    AuthEnded(c, p) =>
      /\ Has(AuthKinds(c, p), "tokenReq") <=> ~TokenIn(L[p].sess, L[p].d.scope)
      /\ Has(AuthKinds(c, p), "roleReq") <=> L[p].sess.role_credentials = NoCreds
      /\ Has(AuthKinds(c, p), "authOk") => AuthOkPresent(c, p)

\* C10 amended: with auto_request_tokens enabled ensureAuth sends a
\* token-exchange request iff the token for the call's scope is absent; if that
\* exchange fails ensureAuth fails with it and sends no role-assumption request;
\* otherwise it then sends a role-assumption request iff the role credentials are
\* absent; when it returns successfully both the token for the scope and the role
\* credentials are present.
C10_RefreshesWhatIsMissing ==
  \A c \in Calls : \A p \in AuthAt(c) :
    LET L == CallLog(c)
        noToken == ~TokenIn(L[p].sess, L[p].d.scope)
        noCreds == L[p].sess.role_credentials = NoCreds
        exchanged == <<"tokenReq", "tokenResp">>
        assumed == <<"roleReq", "roleResp">>
    IN
    (options.auto_request_tokens /\ AuthEnded(c, p)) =>
      LET kinds == AuthKinds(c, p) IN
      /\ kinds \in
           IF noToken
           THEN {exchanged \o <<"fail">>} \cup
                (IF noCreds
                 THEN {exchanged \o assumed \o <<"authOk">>, exchanged \o assumed \o <<"fail">>}
                 ELSE {exchanged \o <<"authOk">>})
           ELSE IF noCreds
                THEN {assumed \o <<"authOk">>, assumed \o <<"fail">>}
                ELSE {<<"authOk">>}
      /\ (noToken /\ kinds = exchanged \o <<"fail">>) =>
           ~Truthy(L[p + 2].d.res.access_token)
      /\ (noCreds /\ kinds = exchanged \o assumed \o <<"fail">>) =>
           L[p + 4].d.res.Credentials = <<>>
      /\ (noCreds /\ kinds = assumed \o <<"fail">>) =>
           L[p + 2].d.res.Credentials = <<>>
      /\ Has(kinds, "authOk") => AuthOkPresent(c, p)

\* An ensureAuth that found both missing fetched the token, then the role
\* credentials, and succeeded.
C10_Witness ==
  /\ options.auto_request_tokens
  /\ \E p \in AuthAt("c1") :
       /\ AuthEnded("c1", p)
       /\ AuthKinds("c1", p) = <<"tokenReq", "tokenResp", "roleReq", "roleResp", "authOk">>

-----------------------------------------------------------------------------
(* C8 *)

\* download was called with details whose encryptionDetails.standard is not "AES".
DownloadNotAES ==
  /\ xfer.op = "download"
  /\ xfer.details # <<>>
  /\ xfer.details[1].encryptionDetails # <<>>
  /\ xfer.details[1].encryptionDetails[1].standard # "AES"

\* C8 as stated: download called with details whose encryptionDetails.standard
\* is not exactly "AES" always fails with UNKNOWN_ENCRYPTION_STANDARD, before any
\* network request is sent.
C8_AsStated ==
  DownloadNotAES =>
    /\ xfer.pc = "rejected"
    /\ xfer.error.code = "UNKNOWN_ENCRYPTION_STANDARD"
    /\ ~Happened(NetworkKinds)

\* C8 amended: download called with details whose encryptionDetails.standard is
\* not exactly "AES" always fails before any network request is sent, with
\* UNKNOWN_ENCRYPTION_STANDARD when the details carry a url and with
\* DOWNLOAD_INFORMATION_MISSING when they do not.
C8_UnknownEncryptionStandard ==
  DownloadNotAES =>
    /\ xfer.pc = "rejected"
    /\ xfer.error.code = IF Truthy(xfer.details[1].url)
                         THEN "UNKNOWN_ENCRYPTION_STANDARD"
                         ELSE "DOWNLOAD_INFORMATION_MISSING"
    /\ ~Happened(NetworkKinds)

\* A download of a DES-encrypted document with a url was refused.
C8_Witness ==
  /\ DownloadNotAES
  /\ xfer.details[1].encryptionDetails[1].standard = "DES"
  /\ Truthy(xfer.details[1].url)
  /\ xfer.pc = "rejected"

-----------------------------------------------------------------------------
(* C11 *)

\* Call c has been invoked, in grantless-only mode, for an operation of the
\* catalog that resolves no scope.
NonGrantlessInGrantlessOnly(c) ==
  /\ options.only_grantless_operations
  /\ calls[c].pc # "idle"
  /\ Registered(calls[c].operation)
  /\ ~Truthy(operations[calls[c].operation].scope)

\* C11: in grantless-only mode, callAPI for an operation that resolves no scope
\* fails with INVALID_OPERATION_ERROR before ensureAuth runs: no token exchange,
\* no role assumption and no API request is sent, and the session is unchanged.
C11_GrantlessOnlyRejects ==
  \A c \in Calls :
    NonGrantlessInGrantlessOnly(c) =>
      /\ calls[c].pc = "rejected"
      /\ calls[c].error.code = "INVALID_OPERATION_ERROR"
      /\ [n \in DOMAIN CallLog(c) |-> CallLog(c)[n].kind] = <<"call", "fail">>
      /\ AuthAt(c) = {}
      /\ ~Happened(NetworkKinds)
      /\ SessionAsConstructed

\* getOrders was called on a grantless-only client and refused.
C11_Witness ==
  /\ NonGrantlessInGrantlessOnly("c1")
  /\ calls["c1"].operation = "getOrders"
  /\ calls["c1"].pc = "rejected"

-----------------------------------------------------------------------------
(* C12, C13 *)

\* The positions, in the events of caller c, of events of the given kind.
At(c, kind) == {p \in DOMAIN CallLog(c) : CallLog(c)[p].kind = kind}

\* The fields no method writes are as the constructor left them.
ConfigAsConstructed ==
  /\ region = GivenConfig.region
  /\ refresh_token = GivenConfig.refresh_token
  /\ options = MergeOptions(GivenConfig.options)

\* The event after position p of caller c's events is the throw of `code`, with
\* the token fields as they were at p.
FailsFastWith(c, p, code) ==
  LET L == CallLog(c) IN
  /\ L[p + 1].kind = "fail"
  /\ L[p + 1].d.code = code
  /\ L[p + 1].sess = L[p].sess
  /\ Len(L) > p + 1 => L[p + 2].kind \in {"refreshAccessToken", "refreshRoleCredentials"}

\* C12: refreshAccessToken(scope) with a scope of the two-value enumeration sends
\* a client_credentials request carrying that scope; with a scope outside the
\* enumeration it fails with INVALID_SCOPE_ERROR; with no scope it sends a
\* refresh_token request carrying the session's refresh token, unless the client
\* is in grantless-only mode, and then it fails with NO_SCOPE_PROVIDED; both
\* failures happen before any request is sent to the token endpoint and leave the
\* session unchanged.
C12_GrantFromScope ==
  /\ ConfigAsConstructed
  /\ \A c \in Calls : \A p \in At(c, "refreshAccessToken") :
       LET L == CallLog(c)
           scope == L[p].d.scope
       IN
       IF scope \in valid_scopes
       THEN /\ L[p + 1].kind = "tokenReq"
            /\ L[p + 1].d.body.grant_type = "client_credentials"
            /\ L[p + 1].d.body.scope = scope
       ELSE IF Truthy(scope)
       THEN FailsFastWith(c, p, "INVALID_SCOPE_ERROR")
       ELSE IF ~options.only_grantless_operations
       THEN /\ L[p + 1].kind = "tokenReq"
            /\ L[p + 1].d.body.grant_type = "refresh_token"
            /\ L[p + 1].d.body.refresh_token = refresh_token
            /\ Truthy(refresh_token)
       ELSE FailsFastWith(c, p, "NO_SCOPE_PROVIDED")

\* refreshAccessToken has been invoked with a scope outside the enumeration, and
\* without a scope on a grantless-only client; both were refused.
C12_Witness ==
  /\ options.only_grantless_operations
  /\ \E p, q \in At("c1", "refreshAccessToken") :
       /\ CallLog("c1")[p].d.scope = "sellingpartnerapi::orders"
       /\ CallLog("c1")[q].d.scope = Undefined
       /\ CallLog("c1")[q + 1].kind = "fail"

\* C13: a successful refreshAccessToken writes exactly one slot: without a scope
\* the access token becomes the returned token and every entry of the grantless
\* cache stays; with a scope only that scope's entry becomes the returned token
\* and the access token and the other entries stay; the role credentials never
\* change.  A failed refreshAccessToken (the upstream error code for a structured
\* error answer, REFRESH_ACCESS_TOKEN_PARSE_ERROR for an unparsable one) leaves
\* the access token and the grantless cache as they were.
C13_RefreshWritesOneSlot ==
  \A c \in Calls : \A q \in At(c, "tokenResp") :
    LET L == CallLog(c)
        before == L[q - 1].sess
        after == L[q].sess
        scope == L[q].d.scope
        res == L[q].d.res
    IN
    /\ L[q - 1].kind = "tokenReq"
    /\ after.role_credentials = before.role_credentials
    /\ IF res.parses /\ Truthy(res.access_token)
       THEN /\ Len(L) > q => L[q + 1].kind # "fail"
            /\ IF ~Truthy(scope)
               THEN /\ after.access_token = res.access_token
                    /\ after.grantless_tokens = before.grantless_tokens
               ELSE /\ after.grantless_tokens[scope] = res.access_token
                    /\ \A other \in valid_scopes \ {scope} :
                         after.grantless_tokens[other] = before.grantless_tokens[other]
                    /\ after.access_token = before.access_token
       ELSE /\ L[q + 1].kind = "fail"
            /\ L[q + 1].sess = before
            /\ after = before
            /\ ~res.parses => L[q + 1].d.code = "REFRESH_ACCESS_TOKEN_PARSE_ERROR"
            /\ (res.parses /\ Truthy(res.error)) => L[q + 1].d.code = res.error

\* A refresh for one scope succeeded while the other scope's entry and the access
\* token were set, and they are as they were.
C13_Witness ==
  \E q \in At("c1", "tokenResp") :
    LET e == CallLog("c1")[q] IN
    /\ e.d.scope = "sellingpartnerapi::migration"
    /\ e.d.res.access_token = "Atza|new2"
    /\ e.sess.grantless_tokens["sellingpartnerapi::notifications"] = "Atza|new1"
    /\ e.sess.access_token = "Atza|seed"
    /\ grantless_tokens["sellingpartnerapi::migration"] = "Atza|new2"

-----------------------------------------------------------------------------
(* C14 *)

\* The triple refreshRoleCredentials stores for the Credentials of an answer.
TripleOf(res) ==
  <<[id |-> res.Credentials[1].AccessKeyId,
     secret |-> res.Credentials[1].SecretAccessKey,
     security_token |-> res.Credentials[1].SessionToken]>>

\* The role-assumption answer at position q of caller c's events made
\* refreshRoleCredentials fail with `code` and the role credentials are as they
\* were when the request was sent.
RoleRefreshFailed(c, q, code) ==
  LET L == CallLog(c) IN
  /\ L[q + 1].kind = "fail"
  /\ L[q + 1].d.code = code
  /\ L[q].sess.role_credentials = L[q - 1].sess.role_credentials
  /\ L[q + 1].sess.role_credentials = L[q - 1].sess.role_credentials

\* C14 as stated: refreshRoleCredentials stores the triple of the answer's
\* Credentials when the answer carries them; otherwise it fails, with the
\* upstream error code when the answer carries ErrorResponse.Error and with
\* NO_ROLE_CREDENTIALS_RECEIVED in every other case; a failure leaves the role
\* credentials unchanged.
C14_AsStated ==
  \A c \in Calls : \A q \in At(c, "roleResp") :
    LET L == CallLog(c)
        res == L[q].d.res
    IN
    IF res.Credentials # <<>>
    THEN L[q].sess.role_credentials = TripleOf(res)
    ELSE IF Truthy(res.Error)
    THEN RoleRefreshFailed(c, q, res.Error)
    ELSE RoleRefreshFailed(c, q, "NO_ROLE_CREDENTIALS_RECEIVED")

\* C14 amended: refreshRoleCredentials stores the triple of the answer's
\* Credentials when the answer carries them; otherwise it fails, with
\* XML_PARSE_ERROR when the answer's body cannot be parsed, with the upstream
\* error code when the answer carries ErrorResponse.Error and with
\* NO_ROLE_CREDENTIALS_RECEIVED in every other case; a failure leaves the role
\* credentials unchanged.
C14_RoleRefreshOutcome ==
  \A c \in Calls : \A q \in At(c, "roleResp") :
    LET L == CallLog(c)
        res == L[q].d.res
    IN
    /\ L[q - 1].kind = "roleReq"
    /\ L[q].sess.access_token = L[q - 1].sess.access_token
    /\ L[q].sess.grantless_tokens = L[q - 1].sess.grantless_tokens
    /\ IF ~res.parses
       THEN RoleRefreshFailed(c, q, "XML_PARSE_ERROR")
       ELSE IF res.Credentials # <<>>
       THEN /\ L[q].sess.role_credentials = TripleOf(res)
            /\ Len(L) > q => L[q + 1].kind # "fail"
       ELSE IF Truthy(res.Error)
       THEN RoleRefreshFailed(c, q, res.Error)
       ELSE RoleRefreshFailed(c, q, "NO_ROLE_CREDENTIALS_RECEIVED")

\* A refresh stored the credentials of its answer and the next one failed with
\* the upstream code, leaving them in place.
C14_Witness ==
  \E p, q \in At("c1", "roleResp") :
    /\ p < q
    /\ CallLog("c1")[p].d.res.Credentials = <<IssuedCreds>>
    /\ CallLog("c1")[q].d.res.Error = "AccessDenied"
    /\ calls["c1"].error.code = "AccessDenied"
    /\ role_credentials = TripleOf(CallLog("c1")[p].d.res)

-----------------------------------------------------------------------------
(* C15 *)

\* The events of the given kind of all callers.
EventsOf(kind) == UNION {{CallLog(c)[p] : p \in At(c, kind)} : c \in Calls}

\* The token-exchange answers processed so far that returned a token: the
\* refreshes that have completed.
CompletedRefreshes ==
  {e \in EventsOf("tokenResp") : e.d.res.parses /\ Truthy(e.d.res.access_token)}

\* The refresh answer processed last.
LastRefresh == CHOOSE e \in CompletedRefreshes : \A f \in CompletedRefreshes : f.at <= e.at

\* Call c found the access token missing: its ensureAuth sent a token exchange.
FoundTokenMissing(c) ==
  \E p \in AuthAt(c) : CallLog(c)[p + 1].kind = "tokenReq"

\* C15: for callAPI invocations in flight on the same client, constructed
\* without an access token and with auto_request_tokens enabled, in every
\* interleaving: the access token is unset until a refresh completes (returns a
\* token); from then on it is a token returned by one of the refreshes, namely
\* the token of the refresh answer processed last; and every API request sent
\* carries a token that a refresh completed before it returned.  (That two calls
\* each send their own token exchange is what C15_Witness reaches.)
C15_ConsistentUnderRace ==
  /\ CompletedRefreshes = {} => access_token = Undefined
  /\ CompletedRefreshes # {} =>
       /\ access_token \in {e.d.res.access_token : e \in CompletedRefreshes}
       /\ access_token = LastRefresh.d.res.access_token
  /\ \A r \in EventsOf("apiReq") :
       /\ r.d.role_credentials # NoCreds
       /\ \E e \in CompletedRefreshes : e.at < r.at /\ e.d.res.access_token = r.d.token

\* Both calls found the token missing and each sent its own token exchange
\* before either was answered; the two answers returned different tokens, the
\* session holds the one processed last, and both calls sent their API request.
C15_Witness ==
  /\ FoundTokenMissing("c1")
  /\ FoundTokenMissing("c2")
  /\ \E e, f \in CompletedRefreshes :
       /\ e.c = "c1" /\ f.c = "c2"
       /\ e.d.res.access_token = "Atza|new2"
       /\ f.d.res.access_token = "Atza|new1"
       /\ e.at < f.at
       /\ \A q \in EventsOf("tokenReq") : q.at < e.at
  /\ access_token = "Atza|new1"
  /\ calls["c1"].pc = "resolved"
  /\ calls["c2"].pc = "resolved"

-----------------------------------------------------------------------------
(* C16 *)

\* The answer makes callAPI retry: an access-token or security-token expiry
\* with auto_request_tokens, a throttle with auto_request_throttled.
IsRetryTrigger(res) ==
  \/ options.auto_request_tokens /\ (IsAccessExpiry(res) \/ IsSecurityExpiry(res))
  \/ options.auto_request_throttled /\ IsThrottled(res)

\* No call has failed on a retry-triggering answer, however many retries it had
\* made: after such an answer comes the refresh or the wait, never the throw.
NeverGivesUp ==
  \A c \in Calls : \A p \in AnswerAt(c) :
    IsRetryTrigger(CallLog(c)[p].d.res) =>
      CallLog(c)[p + 1].kind \in {"tokenReq", "roleReq", "wait"}

\* C16: when the upstream returns retry-triggering answers only finitely many
\* times and every request is answered, a callAPI that was invoked eventually
\* completes, resolved or failed; and callAPI never fails on account of the
\* retries already made: a retry-triggering answer is always followed by the
\* refresh or the wait.
C16_RetriesEnd ==
  /\ []NeverGivesUp
  /\ (calls["c1"].pc # "idle") ~> (calls["c1"].pc \in {"resolved", "rejected"})

\* A call retried as often as the upstream made it and then returned.
C16_Witness ==
  /\ calls["c1"].retries = MaxRetries
  /\ MaxRetries >= 2
  /\ calls["c1"].pc = "resolved"
  /\ \E p, q \in AnswerAt("c1") :
       /\ IsThrottled(CallLog("c1")[p].d.res)
       /\ IsAccessExpiry(CallLog("c1")[q].d.res)

-----------------------------------------------------------------------------
(* C17 *)

\* The step added an event of one of the kinds to the history of a caller.
Added(kinds) ==
  \E c \in Calls :
    /\ Len(log'[c]) > Len(log[c])
    /\ log'[c][Len(log[c]) + 1].kind \in kinds

\* Call c started with the token for its scope and the role credentials present
\* and none of its answers made it refresh.
StartedPresentNoRefresh(c) ==
  /\ AuthAt(c) # {}
  /\ \A p \in AuthAt(c) :
       /\ TokenIn(CallLog(c)[p].sess, CallLog(c)[p].d.scope)
       /\ CallLog(c)[p].sess.role_credentials # NoCreds
  /\ At(c, "tokenReq") = {}
  /\ At(c, "roleReq") = {}

\* The token fields are as the constructor left them, now and at every event.
TokenFieldsKept ==
  LET given == SessAfter(GivenConfig.access_token, EmptyGrantless,
                         GivenConfig.role_credentials)
  IN
  /\ Sess = given
  /\ \A a \in Actors : \A p \in DOMAIN log[a] : log[a][p].sess = given

\* C17: the token fields of the session (access token, grantless-token cache,
\* role credentials) are changed only by refreshAccessToken and
\* refreshRoleCredentials processing their answer; a callAPI that starts with the
\* token for its scope and the role credentials present and that no answer makes
\* refresh leaves the three fields unchanged whatever its outcome; download and
\* upload never change them.
C17_OnlyRefreshesWrite ==
  /\ [][Sess' # Sess => Added({"tokenResp", "roleResp"})]_vars
  /\ [](\A c \in Calls : StartedPresentNoRefresh(c) => TokenFieldsKept)
  /\ [](xfer.pc # "idle" => TokenFieldsKept)

\* A call on seeded tokens was throttled, retried and failed with a propagated
\* error.
C17_Witness ==
  /\ StartedPresentNoRefresh("c1")
  /\ calls["c1"].pc = "rejected"
  /\ calls["c1"].retries >= 1
  /\ \E p \in AnswerAt("c1") : IsThrottled(CallLog("c1")[p].d.res)
  /\ access_token = "Atza|seed"

-----------------------------------------------------------------------------
(* C18 *)

\* The answer carries an errors list.
HasErrors(res) == res.body # <<>> /\ "errors" \in DOMAIN res.body[1]

\* The answer is an error that is no retry trigger and not the sandbox's
\* "InternalFailure": a throttle with auto_request_throttled disabled, a 403
\* "Unauthorized" with auto_request_tokens disabled or matching neither expiry
\* pattern, any other error.
IsPlainError(res) ==
  /\ HasErrors(res)
  /\ ~IsRetryTrigger(res)
  /\ ~(FirstError(res).code = "InternalFailure" /\ options.use_sandbox)

\* C18: an error answer that is no retry trigger is propagated unchanged: callAPI
\* fails with the code and the message of the answer's first error, right after
\* the answer, with no wait, no refresh and no further request; when it is the
\* call's first answer the call has sent exactly one API request.  An
\* "InternalFailure" in sandbox mode fails with INVALID_SANDBOX_PARAMETERS
\* instead.
C18_PlainErrorPropagates ==
  \A c \in Calls : \A p \in AnswerAt(c) :
    LET L == CallLog(c)
        res == L[p].d.res
    IN
    /\ IsPlainError(res) =>
         /\ Len(L) = p + 1
         /\ L[p + 1].kind = "fail"
         /\ L[p + 1].d.code = FirstError(res).code
         /\ L[p + 1].d.message = FirstError(res).message
         /\ calls[c].pc = "rejected"
         /\ calls[c].error = [code |-> FirstError(res).code,
                              message |-> FirstError(res).message]
         /\ L[p] = ApiAnswers(c)[1] =>
              /\ Cardinality(At(c, "apiReq")) = 1
              /\ At(c, "wait") = {}
              /\ \A q \in At(c, "tokenReq") \cup At(c, "roleReq") : q < p
    /\ (HasErrors(res) /\ FirstError(res).code = "InternalFailure" /\ options.use_sandbox) =>
         /\ Len(L) = p + 1
         /\ L[p + 1].kind = "fail"
         /\ L[p + 1].d.code = "INVALID_SANDBOX_PARAMETERS"

\* A throttled answer was propagated because auto_request_throttled is disabled.
C18_Witness ==
  /\ ~options.auto_request_throttled
  /\ calls["c1"].pc = "rejected"
  /\ calls["c1"].error.code = "QuotaExceeded"
  /\ Len(ApiAnswers("c1")) = 1
  /\ IsThrottled(ApiAnswers("c1")[1].d.res)

-----------------------------------------------------------------------------
(* C19 *)

\* The answer has a parsed body without an errors list and is not the 204 of a
\* DELETE.
IsPlainBody(c, res) ==
  /\ res.body # <<>>
  /\ "errors" \notin DOMAIN res.body[1]
  /\ ~(res.statusCode = 204 /\ calls[c].req_params[1].method = "DELETE")

\* C19: for an answer without an errors list callAPI returns, by the shape of the
\* parsed body: with a pagination section and a payload section, one object with
\* the payload's fields and the pagination's fields; with a payload section and
\* no pagination, the payload section; without a payload section, the whole
\* parsed body.
C19_ResultByShape ==
  \A c \in Calls : \A p \in AnswerAt(c) :
    LET L == CallLog(c)
        res == L[p].d.res
    IN
    IsPlainBody(c, res) =>
      LET body == res.body[1]
          result == L[p + 1].d.result
      IN
      /\ L[p + 1].kind = "return"
      /\ Len(L) = p + 1
      /\ calls[c].pc = "resolved"
      /\ calls[c].result = <<result>>
      /\ IF "payload" \in DOMAIN body /\ "pagination" \in DOMAIN body
         THEN /\ DOMAIN result = DOMAIN body.payload \cup DOMAIN body.pagination
              /\ \A k \in DOMAIN body.payload : result[k] = body.payload[k]
              /\ \A k \in DOMAIN body.pagination \ DOMAIN body.payload :
                   result[k] = body.pagination[k]
         ELSE IF "payload" \in DOMAIN body
         THEN result = body.payload
         ELSE result = body

\* A call returned the payload merged with the pagination.
C19_Witness ==
  /\ calls["c1"].pc = "resolved"
  /\ calls["c1"].result = <<[inventorySummaries |-> "items", nextToken |-> "next"]>>

-----------------------------------------------------------------------------
(* C20 *)

\* C20: in every run, retries included, every signed API request carries role
\* credentials and a bearer token that were present in the session when it was
\* signed, and the token is the one for the call's scope: the grantless-cache
\* entry of that scope for a grantless call, the access token otherwise; the
\* entry of another scope, or the access token for a grantless call, is never
\* what was looked up.
C20_SignedWithScopeToken ==
  \A c \in Calls : \A p \in At(c, "apiReq") :
    LET e == CallLog(c)[p]
        scope == e.d.req_params.scope
    IN
    /\ e.d.role_credentials # NoCreds
    /\ e.d.role_credentials = e.sess.role_credentials
    /\ Truthy(e.d.token)
    /\ scope = operations[calls[c].operation].scope
    /\ IF Truthy(scope)
       THEN /\ scope \in valid_scopes
            /\ e.d.token = e.sess.grantless_tokens[scope]
       ELSE e.d.token = e.sess.access_token

\* A grantless call sent its retried API request with the entry of its scope
\* while the other fields held other values.
C20_Witness ==
  /\ calls["c1"].operation = "deleteDestination"
  /\ calls["c1"].retries >= 1
  /\ Cardinality(At("c1", "apiReq")) >= 2
  /\ access_token = "Atza|seed"
  /\ grantless_tokens["sellingpartnerapi::notifications"] = "Atza|new2"
  /\ grantless_tokens["sellingpartnerapi::migration"] = Undefined
  /\ \E p \in At("c1", "apiReq") : CallLog("c1")[p].d.token = "Atza|new2"

-----------------------------------------------------------------------------
(* C21 *)

\* The error code refreshAccessToken raises for a token answer that returns no
\* token.
TokenErrorOf(res) ==
  IF ~res.parses THEN "REFRESH_ACCESS_TOKEN_PARSE_ERROR"
  ELSE IF Truthy(res.error) THEN res.error
  ELSE "UNKNOWN_REFRESH_ACCESS_TOKEN_ERROR"

\* The error code refreshRoleCredentials raises for a role answer that carries
\* no Credentials.
RoleErrorOf(res) ==
  IF ~res.parses THEN "XML_PARSE_ERROR"
  ELSE IF Truthy(res.Error) THEN res.Error
  ELSE "NO_ROLE_CREDENTIALS_RECEIVED"

\* Call c ended at position q + 1 of its events, failing with `code`.
CallFailedAt(c, q, code) ==
  LET L == CallLog(c) IN
  /\ Len(L) = q + 1
  /\ L[q + 1].kind = "fail"
  /\ L[q + 1].d.code = code
  /\ calls[c].pc = "rejected"
  /\ calls[c].error.code = code

\* C21: with auto_request_tokens enabled callAPI never fails with
\* NO_ACCESS_TOKEN_AND_OR_ROLE_CREDENTIALS_PRESENT: a refresh whose answer is
\* good stores a non-empty value, and a failed refresh, during ensureAuth or
\* after an expiry answer, makes callAPI fail with that refresh's error code,
\* with no API request (nor anything else) after it.
C21_RefreshStoresOrFails ==
  options.auto_request_tokens =>
  \A c \in Calls :
    LET L == CallLog(c) IN
    /\ \A p \in At(c, "fail") :
         L[p].d.code # "NO_ACCESS_TOKEN_AND_OR_ROLE_CREDENTIALS_PRESENT"
    /\ \A q \in At(c, "tokenResp") :
         IF L[q].d.res.parses /\ Truthy(L[q].d.res.access_token)
         THEN /\ TokenIn(L[q].sess, L[q].d.scope)
              /\ Len(L) > q => L[q + 1].kind \in {"roleReq", "authOk", "call"}
         ELSE CallFailedAt(c, q, TokenErrorOf(L[q].d.res))
    /\ \A q \in At(c, "roleResp") :
         IF L[q].d.res.parses /\ L[q].d.res.Credentials # <<>>
         THEN /\ L[q].sess.role_credentials # NoCreds
              /\ Len(L) > q => L[q + 1].kind \in {"authOk", "call"}
         ELSE CallFailedAt(c, q, RoleErrorOf(L[q].d.res))

\* A call got an access-token expiry, and the refresh after it failed with the
\* token endpoint's error code.
C21_Witness ==
  /\ options.auto_request_tokens
  /\ calls["c1"].retries >= 1
  /\ calls["c1"].pc = "rejected"
  /\ calls["c1"].error.code = "invalid_grant"
  /\ Cardinality(At("c1", "apiReq")) = 1

====
